---- MODULE Spec2Model ----
(***************************************************************************)
(* Model of libnest's configuration file parser                            *)
(* (src/libnest/src/config_parser.rs): ConfigParser::new builds a parser   *)
(* from a TOML file, ConfigParser::load_to_config projects the `paths`     *)
(* and `repositories` sections onto a Config.                              *)
(***************************************************************************)
EXTENDS FiniteSets, Integers, Sequences, TLC

VARIABLES
    pc,       \* "start" | "constructed" | "failed" | "aborted"
    file,     \* the file ConfigParser::new was given (NoFile before the call)
    result,   \* what ConfigParser::new returned (NoResult before the call)
    stdout,   \* the lines printed so far
    conf,     \* the Config that load_to_config is applied to
    pre,      \* conf as it was when the last load_to_config call started
    nloads    \* number of load_to_config calls made so far

vars == <<pc, file, result, stdout, conf, pre, nloads>>

----------------------------------------------------------------------------
(* Bounds of the model *)

MaxMirrors == 2

MaxLoads == 2

----------------------------------------------------------------------------
(* Option and Result *)

None == [tag |-> "None"]

Some(x) == [tag |-> "Some", val |-> x]

Ok(x) == [tag |-> "Ok", val |-> x]

Err(e) == [tag |-> "Err", err |-> e]

\* The three variants of ParseConfError.
Io(e) == [kind |-> "Io", inner |-> e]

Deserialize(e) == [kind |-> "Deserialize", inner |-> e]

Str(s) == [kind |-> "Str", inner |-> s]

\* Outcome of a function that may unwind (Option::unwrap on None).
Return(x) == [tag |-> "Return", val |-> x]

Panic == [tag |-> "Panic"]

----------------------------------------------------------------------------
(* toml::value::Value *)

\* A Value is <<kind, payload>>; the payload is always a sequence.
StringV(s) == <<"String", <<s>>>>

IntegerV == <<"Integer", <<>>>>

ArrayV(elems) == <<"Array", elems>>

\* entries: a sequence of <<key, value>> pairs with distinct keys, held in the
\* table's iteration order.
TableV(entries) == <<"Table", entries>>

is_table(v) == v[1] = "Table"

as_table(v) == IF v[1] = "Table" THEN Some(v[2]) ELSE None

as_array(v) == IF v[1] = "Array" THEN Some(v[2]) ELSE None

as_str(v) == IF v[1] = "String" THEN Some(v[2][1]) ELSE None

\* Table::get(key)
Table_get(table, key) ==
    IF \E i \in 1..Len(table) : table[i][1] = key
    THEN Some(table[CHOOSE i \in 1..Len(table) : table[i][1] = key][2])
    ELSE None

\* Value::get(key) with a string index: only a table can be indexed by key.
Value_get(v, key) ==
    IF v[1] = "Table" THEN Table_get(v[2], key) ELSE None

----------------------------------------------------------------------------
(* The collaborators: Config, Repository, Mirror, PathBuf *)

PathBuf_from(s) == [path |-> s]

\* Config::set_cache, recorded in the configuration's call log.
set_cache(c, path) ==
    [c EXCEPT !.cache = path,
              !.calls = Append(@, [fn |-> "set_cache", arg |-> <<path>>])]

\* Config::set_download_path
set_download_path(c, path) ==
    [c EXCEPT !.download_path = path,
              !.calls = Append(@, [fn |-> "set_download_path", arg |-> <<path>>])]

\* Config::set_repositories: the new sequence takes the place of the old one.
set_repositories(c, repos) ==
    [c EXCEPT !.repositories = repos,
              !.calls = Append(@, [fn |-> "set_repositories", arg |-> repos])]

\* Repository::new(&Config, name): an empty mirror list, and the settings of
\* the configuration the repository is constructed against.
Repository_new(c, name) ==
    [name |-> name,
     mirrors |-> <<>>,
     config |-> [cache |-> c.cache, download_path |-> c.download_path]]

Mirror_new(url) == [url |-> url]

----------------------------------------------------------------------------
(* ConfigParser *)

\* The loader's collaborators: File::open, read_to_string, str::parse.
File_open(f) == IF f.open = "ok" THEN Ok(f) ELSE Err(f.open)

read_to_string(f) == IF f.read = "ok" THEN Ok(f.content) ELSE Err(f.read)

parse(content) ==
    IF content.syntax = "ok" THEN Ok(content.value) ELSE Err(content.syntax)

read_conf_IgnoreReadError(f) ==
    LET o == File_open(f) IN
    IF o.tag = "Ok"
    THEN LET p == parse(f.content) IN
         IF p.tag = "Ok" THEN Ok(p.val) ELSE Err(Deserialize(p.err))
    ELSE Err(Io(o.err))

read_conf(f) ==
    LET o == File_open(f) IN
    IF o.tag = "Ok"
    THEN LET r == read_to_string(o.val) IN
         IF r.tag = "Err"
         THEN Err(Io(r.err))
         ELSE LET p == parse(r.val) IN
              IF p.tag = "Ok" THEN Ok(p.val) ELSE Err(Deserialize(p.err))
    ELSE Err(Io(o.err))

UsingLine(path) == <<"Using ", path, " as config file">>

ConfigParser_new_NoShapeCheck(path, f) ==
    LET rc == read_conf(f) IN
    IF rc.tag = "Ok"
    THEN [out |-> <<UsingLine(path)>>, ret |-> Ok([toml |-> rc.val])]
    ELSE [out |-> <<>>, ret |-> rc]

ConfigParser_new_NeedsPaths(path, f) ==
    LET rc == read_conf(f) IN
    IF rc.tag = "Ok"
    THEN [out |-> <<UsingLine(path)>>,
          ret |-> IF is_table(rc.val)
                     /\ Value_get(rc.val, "paths").tag = "Some"
                     /\ is_table(Value_get(rc.val, "paths").val)
                  THEN Ok([toml |-> rc.val])
                  ELSE Err(Str("Invalid toml file"))]
    ELSE [out |-> <<>>, ret |-> rc]

\* ConfigParser::new: out is what it prints, ret what it returns.
ConfigParser_new(path, f) ==
    LET rc == read_conf(f) IN
    IF rc.tag = "Ok"
    THEN [out |-> <<UsingLine(path)>>,
          ret |-> IF is_table(rc.val)
                  THEN Ok([toml |-> rc.val])
                  ELSE Err(Str("Invalid toml file"))]
    ELSE [out |-> <<>>, ret |-> rc]

\* self.toml.as_table().unwrap().get(key).and_then(|value| value.as_table())
get_table(toml, key) ==
    LET t == as_table(toml) IN
    IF t.tag = "None"
    THEN Panic
    ELSE LET v == Table_get(t.val, key) IN
         Return(IF v.tag = "Some" THEN as_table(v.val) ELSE None)

get_str(table, key) ==
    LET v == Table_get(table, key) IN
    IF v.tag = "Some" THEN as_str(v.val) ELSE None

\* Apply the setter named func.
Call(func, c, path) ==
    IF func = "set_cache" THEN set_cache(c, path) ELSE set_download_path(c, path)

set_path_AnyValue(c, func, table, key) ==
    LET v == Table_get(table, key) IN
    IF v.tag = "Some"
    THEN Call(func, c, PathBuf_from(IF v.val[1] = "String" THEN v.val[2][1] ELSE ""))
    ELSE c

set_path(c, func, table, key) ==
    LET string == get_str(table, key) IN
    IF string.tag = "Some" THEN Call(func, c, PathBuf_from(string.val)) ELSE c

parse_paths_mut(toml, c) ==
    LET paths == get_table(toml, "paths") IN
    IF paths.tag = "Panic"
    THEN Panic
    ELSE IF paths.val.tag = "Some"
         THEN Return(set_path(set_path(c, "set_cache", paths.val.val, "cache_dir"),
                              "set_download_path", paths.val.val, "download_dir"))
         ELSE Return(c)

\* The loop of parse_repo over mirror_list, from element i on.
RECURSIVE PushMirrors(_, _, _)
PushMirrors(repo, mirror_list, i) ==
    IF i > Len(mirror_list)
    THEN Some(repo)
    ELSE LET s == as_str(mirror_list[i]) IN
         IF s.tag = "None"
         THEN None
         ELSE PushMirrors([repo EXCEPT !.mirrors = Append(@, Mirror_new(s.val))],
                          mirror_list, i + 1)

\* The same loop leaving the repository as built so far at a non-string.
RECURSIVE PushMirrorsUntilBad(_, _, _)
PushMirrorsUntilBad(repo, mirror_list, i) ==
    IF i > Len(mirror_list)
    THEN Some(repo)
    ELSE LET s == as_str(mirror_list[i]) IN
         IF s.tag = "None"
         THEN Some(repo)
         ELSE PushMirrorsUntilBad([repo EXCEPT !.mirrors = Append(@, Mirror_new(s.val))],
                                  mirror_list, i + 1)

parse_repo_KeepPartial(repo_name, value, c) ==
    LET m == Value_get(value, "mirrors") IN
    IF m.tag = "None"
    THEN None
    ELSE LET mirror_list == as_array(m.val) IN
         IF mirror_list.tag = "None"
         THEN None
         ELSE PushMirrorsUntilBad(Repository_new(c, repo_name), mirror_list.val, 1)

parse_repo(repo_name, value, c) ==
    LET m == Value_get(value, "mirrors") IN
    IF m.tag = "None"
    THEN None
    ELSE LET mirror_list == as_array(m.val) IN
         IF mirror_list.tag = "None"
         THEN None
         ELSE PushMirrors(Repository_new(c, repo_name), mirror_list.val, 1)

\* The loop of parse_repositories over the table's entries, from entry i on.
RECURSIVE CollectRepos(_, _, _, _)
CollectRepos(repositories, i, c, repo_vec) ==
    IF i > Len(repositories)
    THEN repo_vec
    ELSE LET repo == parse_repo(repositories[i][1], repositories[i][2], c) IN
         CollectRepos(repositories, i + 1, c,
                      IF repo.tag = "Some" THEN Append(repo_vec, repo.val) ELSE repo_vec)

parse_repositories_Extend(toml, c) ==
    LET repositories == get_table(toml, "repositories") IN
    IF repositories.tag = "Panic"
    THEN Panic
    ELSE IF repositories.val.tag = "None"
         THEN Return(None)
         ELSE Return(Some(CollectRepos(repositories.val.val, 1, c, c.repositories)))

parse_repositories_NoneIfEmpty(toml, c) ==
    LET repositories == get_table(toml, "repositories") IN
    IF repositories.tag = "Panic"
    THEN Panic
    ELSE IF repositories.val.tag = "None"
         THEN Return(None)
         ELSE LET v == CollectRepos(repositories.val.val, 1, c, <<>>) IN
              Return(IF v = <<>> THEN None ELSE Some(v))

parse_repositories_DefaultEmpty(toml, c) ==
    LET repositories == get_table(toml, "repositories") IN
    IF repositories.tag = "Panic"
    THEN Panic
    ELSE IF repositories.val.tag = "None"
         THEN Return(Some(<<>>))
         ELSE Return(Some(CollectRepos(repositories.val.val, 1, c, <<>>)))

parse_repositories(toml, c) ==
    LET repositories == get_table(toml, "repositories") IN
    IF repositories.tag = "Panic"
    THEN Panic
    ELSE IF repositories.val.tag = "None"
         THEN Return(None)
         ELSE Return(Some(CollectRepos(repositories.val.val, 1, c, <<>>)))

load_to_config_NoPaths(toml, c) ==
    LET r == parse_repositories(toml, c) IN
    IF r.tag = "Panic"
    THEN Panic
    ELSE IF r.val.tag = "Some"
         THEN Return(set_repositories(c, r.val.val))
         ELSE Return(c)

load_to_config(toml, c) ==
    LET p == parse_paths_mut(toml, c) IN
    IF p.tag = "Panic"
    THEN Panic
    ELSE LET r == parse_repositories(toml, p.val) IN
         IF r.tag = "Panic"
         THEN Panic
         ELSE IF r.val.tag = "Some"
              THEN Return(set_repositories(p.val, r.val.val))
              ELSE Return(p.val)

----------------------------------------------------------------------------
(* The inputs: files, documents, initial configurations *)

\* No entry, or one entry under key with a value of vals.
OptEntry(key, vals) == {<<>>} \cup {<< <<key, v>> >> : v \in vals}

SeqsUpTo(S, n) == UNION {[1..k -> S] : k \in 0..n}

PathValues == {StringV("/p1"), IntegerV}

PathsTables ==
    {a \o b \o x : a \in OptEntry("cache_dir", PathValues),
                   b \in OptEntry("download_dir", PathValues),
                   x \in OptEntry("tmp_dir", {StringV("/p2")})}

MirrorElems == {StringV("m1"), StringV("m2"), IntegerV}

RepoValues ==
    {StringV("x"),
     TableV(<< <<"url", StringV("m1")>> >>),
     TableV(<< <<"mirrors", StringV("m1")>> >>)}
    \cup {TableV(<< <<"mirrors", ArrayV(s)>> >>) : s \in SeqsUpTo(MirrorElems, MaxMirrors)}

RepoTables ==
    {a \o b : a \in OptEntry("r1", RepoValues), b \in OptEntry("r2", RepoValues)}

RootTables ==
    {p \o r : p \in OptEntry("paths", {StringV("x")} \cup {TableV(t) : t \in PathsTables}),
              r \in OptEntry("repositories",
                             {ArrayV(<<>>)} \cup {TableV(t) : t \in RepoTables})}

\* What the TOML parser may hand back for a well-formed text.
Values == {TableV(t) : t \in RootTables} \cup {ArrayV(<<>>), StringV("x")}

Contents ==
    {[syntax |-> "ok", value |-> v] : v \in Values}
    \cup {[syntax |-> "expected an equals", value |-> IntegerV]}

Paths == {"nest.toml"}

\* What the file system holds behind a path.
Files == [path : Paths, open : {"ok", "ENOENT"}, read : {"ok", "EIO"}, content : Contents]

OldRepo ==
    [name |-> "old",
     mirrors |-> <<Mirror_new("m0")>>,
     config |-> [cache |-> PathBuf_from("/c0"), download_path |-> PathBuf_from("/d0")]]

InitConfs ==
    {[cache |-> PathBuf_from("/c0"), download_path |-> PathBuf_from("/d0"),
      repositories |-> r, calls |-> <<>>] : r \in {<<>>, <<OldRepo>>}}

NoFile == [open |-> "none"]

NoResult == [tag |-> "NoResult"]

----------------------------------------------------------------------------
(* The state machine *)

Init ==
    /\ pc = "start"
    /\ file = NoFile
    /\ result = NoResult
    /\ stdout = <<>>
    /\ conf \in InitConfs
    /\ pre = conf
    /\ nloads = 0

\* let parser = ConfigParser::new(path), for any path and any file behind it
New ==
    /\ pc = "start"
    /\ \E f \in Files :
          LET r == ConfigParser_new(f.path, f) IN
          /\ result' = r.ret
          /\ stdout' = stdout \o r.out
          /\ pc' = IF r.ret.tag = "Ok" THEN "constructed" ELSE "failed"
          /\ file' = f
    /\ UNCHANGED <<conf, pre, nloads>>

\* parser.load_to_config(&mut conf)
LoadToConfig ==
    /\ pc = "constructed"
    /\ nloads < MaxLoads
    /\ LET r == load_to_config(result.val.toml, [conf EXCEPT !.calls = <<>>]) IN
       IF r.tag = "Panic"
       THEN pc' = "aborted" /\ conf' = conf
       ELSE pc' = pc /\ conf' = r.val
    /\ pre' = conf
    /\ nloads' = nloads + 1
    /\ UNCHANGED <<file, result, stdout>>

Next ==
    \/ New
    \/ LoadToConfig

Spec == Init /\ [][Next]_vars

----------------------------------------------------------------------------
(* Vocabulary of the properties *)

\* The document the parser holds.
Doc == result.val.toml

Loaded == pc = "constructed" /\ nloads >= 1

HasKind(entries, key, kind) ==
    \E i \in 1..Len(entries) : entries[i][1] = key /\ entries[i][2][1] = kind

HasKey(entries, key) == \E i \in 1..Len(entries) : entries[i][1] = key

\* The payload of the value under key.
At(entries, key) == entries[CHOOSE i \in 1..Len(entries) : entries[i][1] = key][2][2]

PathsIsTable == HasKind(Doc[2], "paths", "Table")

ReposIsTable == HasKind(Doc[2], "repositories", "Table")

PathsTable == At(Doc[2], "paths")

ReposTable == At(Doc[2], "repositories")

\* The key holds a string under a `paths` table.
PathGiven(key) == PathsIsTable /\ HasKind(PathsTable, key, "String")

CallsOf(fn) == SelectSeq(conf.calls, LAMBDA e : e.fn = fn)

\* A repository entry whose `mirrors` is an array of strings only.
ValidEntry(v) ==
    /\ v[1] = "Table"
    /\ HasKind(v[2], "mirrors", "Array")
    /\ \A j \in 1..Len(At(v[2], "mirrors")) : At(v[2], "mirrors")[j][1] = "String"

ValidIdx == {i \in 1..Len(ReposTable) : ValidEntry(ReposTable[i][2])}

\* The index of the k-th valid entry in the table's iteration order.
KthValid(k) == CHOOSE i \in ValidIdx : Cardinality({j \in ValidIdx : j < i}) = k - 1

\* The settings a configuration holds, without its call log.
Cfg(c) == [cache |-> c.cache, download_path |-> c.download_path,
           repositories |-> c.repositories]

\* The paths, and the name and mirrors of each repository.
Listing(c) ==
    [cache |-> c.cache, download_path |-> c.download_path,
     repositories |-> [i \in 1..Len(c.repositories) |->
                         [name |-> c.repositories[i].name,
                          mirrors |-> c.repositories[i].mirrors]]]

\* load_to_config with its two projections in the opposite order.
LoadReposFirst(toml, c) ==
    LET r == parse_repositories(toml, c).val
        c1 == IF r.tag = "Some" THEN set_repositories(c, r.val) ELSE c
    IN parse_paths_mut(toml, c1).val

----------------------------------------------------------------------------
(* Properties *)

\* C1: once the file is opened, read and parsed, ConfigParser::new succeeds
\* exactly when the top-level value is a Table, whatever the sections hold, and
\* then keeps that value; for any other top-level value it returns the Str
\* error and no parser exists.
C1_NewSucceedsIffTable ==
    (pc # "start" /\ file.open = "ok" /\ file.read = "ok" /\ file.content.syntax = "ok")
    => LET v == file.content.value IN
       /\ (result.tag = "Ok") <=> (v[1] = "Table")
       /\ v[1] = "Table" => pc = "constructed" /\ result.val.toml = v
       /\ v[1] # "Table" =>
            /\ pc = "failed"
            /\ result.tag = "Err"
            /\ result.err.kind = "Str"

\* A parser built from a table whose `paths` and `repositories` are not tables.
C1_Witness ==
    /\ pc = "constructed"
    /\ HasKind(Doc[2], "paths", "String")
    /\ HasKind(Doc[2], "repositories", "Array")

\* C2: a failed open or a failed read gives the Io error carrying that failure,
\* a text that does not parse gives the Deserialize error carrying the parser's
\* diagnostic, and a parser or the Str error comes only after open, read and
\* parse have all succeeded.
C2_LoaderErrorsClassified ==
    pc # "start" =>
      /\ file.open # "ok" =>
           result.tag = "Err" /\ result.err.kind = "Io" /\ result.err.inner = file.open
      /\ (file.open = "ok" /\ file.read # "ok") =>
           result.tag = "Err" /\ result.err.kind = "Io" /\ result.err.inner = file.read
      /\ (file.open = "ok" /\ file.read = "ok" /\ file.content.syntax # "ok") =>
           /\ result.tag = "Err"
           /\ result.err.kind = "Deserialize"
           /\ result.err.inner = file.content.syntax
      /\ (result.tag = "Ok" \/ result.err.kind = "Str") =>
           file.open = "ok" /\ file.read = "ok" /\ file.content.syntax = "ok"

\* The read fails on a file whose text would parse to a non-table.
C2_Witness ==
    /\ pc = "failed"
    /\ file.open = "ok"
    /\ file.read = "EIO"
    /\ file.content.syntax = "ok"
    /\ file.content.value[1] # "Table"
    /\ result.err.kind = "Io"

\* C3: with a `repositories` table, set_repositories is called once, with one
\* repository per entry whose `mirrors` is an array of strings only, in the
\* table's iteration order, named by the key, with one Mirror per element in
\* array order; every other entry is left out whole.
C3_ReposFromValidEntries ==
    (Loaded /\ ReposIsTable) =>
      /\ Len(CallsOf("set_repositories")) = 1
      /\ LET s == CallsOf("set_repositories")[1].arg IN
         /\ Len(s) = Cardinality(ValidIdx)
         /\ \A k \in 1..Len(s) :
              LET e == ReposTable[KthValid(k)]
                  a == At(e[2][2], "mirrors")
              IN /\ s[k].name = e[1]
                 /\ Len(s[k].mirrors) = Len(a)
                 /\ \A j \in 1..Len(a) : s[k].mirrors[j] = Mirror_new(a[j][2][1])

\* r1 has a non-string after a string, r2 has two distinct mirrors: only r2 is
\* passed on, with its mirrors in order.
C3_Witness ==
    /\ Loaded
    /\ ReposIsTable
    /\ Len(ReposTable) = 2
    /\ ReposTable[1][2] = TableV(<< <<"mirrors", ArrayV(<<StringV("m1"), IntegerV>>)>> >>)
    /\ ReposTable[2][2] = TableV(<< <<"mirrors", ArrayV(<<StringV("m2"), StringV("m1")>>)>> >>)
    /\ Len(conf.repositories) = 1
    /\ conf.repositories[1].name = "r2"
    /\ conf.repositories[1].mirrors = <<Mirror_new("m2"), Mirror_new("m1")>>

\* C4: set_cache is called exactly when `paths` is a table holding a string
\* under cache_dir, once and with that string as the path, and otherwise the
\* cache path keeps its value; the same for set_download_path and download_dir,
\* each independently of the other.
C4_PathSetters ==
    Loaded =>
      /\ (CallsOf("set_cache") # <<>>) <=> PathGiven("cache_dir")
      /\ PathGiven("cache_dir") =>
           /\ CallsOf("set_cache") =
                <<[fn |-> "set_cache",
                   arg |-> <<PathBuf_from(At(PathsTable, "cache_dir")[1])>>]>>
           /\ conf.cache = PathBuf_from(At(PathsTable, "cache_dir")[1])
      /\ ~PathGiven("cache_dir") => conf.cache = pre.cache
      /\ (CallsOf("set_download_path") # <<>>) <=> PathGiven("download_dir")
      /\ PathGiven("download_dir") =>
           /\ CallsOf("set_download_path") =
                <<[fn |-> "set_download_path",
                   arg |-> <<PathBuf_from(At(PathsTable, "download_dir")[1])>>]>>
           /\ conf.download_path = PathBuf_from(At(PathsTable, "download_dir")[1])
      /\ ~PathGiven("download_dir") => conf.download_path = pre.download_path

\* cache_dir is a string, download_dir is not, and another key is present:
\* only the cache path changes.
C4_Witness ==
    /\ Loaded
    /\ nloads = 1
    /\ PathGiven("cache_dir")
    /\ HasKind(PathsTable, "download_dir", "Integer")
    /\ HasKey(PathsTable, "tmp_dir")
    /\ conf.cache = PathBuf_from("/p1")
    /\ pre.cache = PathBuf_from("/c0")
    /\ conf.download_path = PathBuf_from("/d0")

\* C5: with a `repositories` table, the repository list after the call has one
\* repository per valid entry, each named by a key of the table, and is the
\* list the call yields from a configuration whose list was empty: nothing of
\* the prior list survives, and with no valid entry the list is empty.
C5_ReposReplaced ==
    (Loaded /\ ReposIsTable) =>
      /\ Len(conf.repositories) = Cardinality(ValidIdx)
      /\ \A i \in 1..Len(conf.repositories) : HasKey(ReposTable, conf.repositories[i].name)
      /\ conf.repositories =
           load_to_config(Doc, [pre EXCEPT !.repositories = <<>>, !.calls = <<>>])
             .val.repositories
      /\ ValidIdx = {} => conf.repositories = <<>>

\* Every entry of a non-empty table is malformed and a prior list existed.
C5_Witness ==
    /\ Loaded
    /\ nloads = 1
    /\ ReposIsTable
    /\ Len(ReposTable) = 2
    /\ ValidIdx = {}
    /\ pre.repositories # <<>>
    /\ conf.repositories = <<>>

\* C6: when `repositories` is absent or not a table, set_repositories is not
\* called and the repository list is the one before the call.
C6_ReposUntouched ==
    (Loaded /\ ~ReposIsTable) =>
      /\ CallsOf("set_repositories") = <<>>
      /\ conf.repositories = pre.repositories

\* `repositories` is an array and the configuration held a repository.
C6_Witness ==
    /\ Loaded
    /\ HasKind(Doc[2], "repositories", "Array")
    /\ pre.repositories # <<>>
    /\ conf.repositories = pre.repositories

\* C7: ConfigParser::new prints the line naming the config file once when it
\* returns a parser and prints nothing when it returns an error.
C7_ConfirmationOnSuccessOnly ==
    pc # "start" =>
      stdout = IF result.tag = "Ok" THEN <<UsingLine(file.path)>> ELSE <<>>

\* C8: a second application of the same parser leaves the cache path, the
\* download path and the repository sequence as the first application left them.
C8_LoadIdempotent ==
    (pc = "constructed" /\ nloads >= 2) => Cfg(conf) = Cfg(pre)

\* Two applications of a document that sets a path and builds two repositories
\* over a prior list.
C8_Witness ==
    /\ pc = "constructed"
    /\ nloads = 2
    /\ PathGiven("cache_dir")
    /\ Len(conf.repositories) = 2
    /\ conf.cache = PathBuf_from("/p1")

\* C9: the root of every parser is a Table, and load_to_config never aborts.
C9_RootIsTableNoAbort ==
    /\ result.tag = "Ok" => result.val.toml[1] = "Table"
    /\ pc # "aborted"
    /\ pc = "constructed" => load_to_config(Doc, conf).tag = "Return"

\* An application of a document whose `paths` is not a table and whose
\* repositories are all malformed.
C9_Witness ==
    /\ Loaded
    /\ HasKind(Doc[2], "paths", "String")
    /\ ReposIsTable
    /\ Len(ReposTable) = 2
    /\ ValidIdx = {}

\* C10 as stated: the configuration after load_to_config, repository
\* descriptors included, is the one the projections yield in the opposite order.
C10_OrderInsensitive ==
    Loaded => Cfg(conf) = Cfg(LoadReposFirst(Doc, [pre EXCEPT !.calls = <<>>]))

\* C10 amended: the cache path, the download path and the names and mirrors of
\* the repositories after load_to_config are those the projections yield in
\* the opposite order.
C10_OrderInsensitiveListing ==
    Loaded => Listing(conf) = Listing(LoadReposFirst(Doc, [pre EXCEPT !.calls = <<>>]))

\* The call changed the cache path and built a repository.
C10_Witness ==
    /\ Loaded
    /\ nloads = 1
    /\ conf.cache # pre.cache
    /\ Len(conf.repositories) >= 1
    /\ conf.repositories[1].config.cache = conf.cache

====
